---- MODULE Spec2Model ----
(***************************************************************************)
(* Model of src/Data_Detection.py: the EWMA anomaly detector               *)
(* (anomaly_detection) followed by the frame-by-frame animation            *)
(* (realtime_visualization / update), as wired together by __main__.       *)
(*                                                                         *)
(* Numbers.  Python floats are modelled as exact fixed-point rationals: a  *)
(* float x is the integer x * One, where One = Den^(MaxLen-1).  Samples    *)
(* are integers, alpha and z_value are multiples of 1/Den, so every        *)
(* product formed by at most MaxLen-1 loop iterations is a multiple of     *)
(* 1/One and Mul is exact (no rounding is modelled, and for Den = 2 none   *)
(* happens in IEEE doubles either).                                        *)
(*                                                                         *)
(* Indices.  Python sequences are 0-based, TLA+ sequences 1-based: the     *)
(* Python element s[i] is s[i+1] here.  Loop counters, frames and anomaly  *)
(* indices keep their Python (0-based) values.                             *)
(***************************************************************************)
EXTENDS Integers, Sequences, FiniteSets, TLC

\* ---------------------------------------------------------------- bounds
MaxLen == 4          \* longest signal
MaxVal == 2          \* largest sample (samples are -1..MaxVal)
MaxThr == 3          \* largest z_value, in units of 1/Den
Den == 2             \* alpha and z_value are multiples of 1/Den
MaxUpdates == MaxLen + 2   \* update() calls explored (more than one sweep)

One == Den ^ (MaxLen - 1)

Samples == {v * One : v \in (0 - 1)..MaxVal}
Signals == UNION {[1..n -> Samples] : n \in 0..MaxLen}
Alphas == {(n * One) \div Den : n \in (0 - 1)..(Den + 1)}
Thresholds == {(n * One) \div Den : n \in (0 - 1)..MaxThr}

VARIABLES
    data,                \* the signal handed to anomaly_detection
    alpha,               \* smoothing factor
    z_value,             \* deviation threshold
    pc,                  \* "call", "loop", "raised", "returned", "animating"
    err,                 \* exception that ended the call, "" when none
    i,                   \* loop variable of anomaly_detection
    data_stream,         \* the trend list being built / returned
    anomalies,           \* the (i, data[i]) list being built / returned
    frame,               \* argument of the latest update() call, -1 before
    xdata, ydata,        \* lists closed over by update()
    data_line,           \* <<x, y>> last given to data_line.set_data
    moving_average_line, \* <<x, y>> last given to moving_average_line.set_data
    anomaly_scatter      \* points last given to anomaly_scatter.set_offsets

vars == <<data, alpha, z_value, pc, err, i, data_stream, anomalies,
          frame, xdata, ydata, data_line, moving_average_line, anomaly_scatter>>

inputs == <<data, alpha, z_value>>
plotState == <<frame, xdata, ydata, data_line, moving_average_line, anomaly_scatter>>

\* ------------------------------------------------------ anomaly_detection
Abs(x) == IF x < 0 THEN 0 - x ELSE x

Mul(x, y) == (x * y) \div One

Last(s) == s[Len(s)]

Seed_last(d) == d[Len(d)]

Seed(d) == d[1]

MovingAverage_swapped(a, x, prev) == Mul(One - a, x) + Mul(a, prev)

MovingAverage_signerr(a, x, prev) == Mul(a, x) - Mul(One - a, prev)

MovingAverage(a, x, prev) == Mul(a, x) + Mul(One - a, prev)

Deviation_prior(x, moving_average, prev) == x - prev

Deviation(x, moving_average, prev) == x - moving_average

IsAnomaly_ge(deviation, z) == Abs(deviation) >= z

IsAnomaly_lt(deviation, z) == Abs(deviation) < z

IsAnomaly(deviation, z) == Abs(deviation) > z

AnomalyEntry_offbyone(k, d) == <<k - 1, d[k + 1]>>

AnomalyEntry(k, d) == <<k, d[k + 1]>>

Iteration_overwrite(d, a, z, k, st) ==
    LET prev == Last(st.data_stream)
        moving_average == MovingAverage(a, d[k + 1], prev)
        deviation == Deviation(d[k + 1], moving_average, prev)
    IN  [data_stream |-> IF k >= 2
                         THEN Append(SubSeq(st.data_stream, 1, Len(st.data_stream) - 1),
                                     moving_average)
                         ELSE Append(st.data_stream, moving_average),
         anomalies   |-> IF IsAnomaly(deviation, z)
                         THEN Append(st.anomalies, AnomalyEntry(k, d))
                         ELSE st.anomalies]

\* One pass through the body of the for loop, for loop index k.
Iteration(d, a, z, k, st) ==
    LET prev == Last(st.data_stream)
        moving_average == MovingAverage(a, d[k + 1], prev)
        deviation == Deviation(d[k + 1], moving_average, prev)
    IN  [data_stream |-> Append(st.data_stream, moving_average),
         anomalies   |-> IF IsAnomaly(deviation, z)
                         THEN Append(st.anomalies, AnomalyEntry(k, d))
                         ELSE st.anomalies]

RECURSIVE Pass(_, _, _, _, _)
Pass(d, a, z, k, st) ==
    IF k >= Len(d) THEN st ELSE Pass(d, a, z, k + 1, Iteration(d, a, z, k, st))

\* The whole function on a non-empty signal, as a value.
anomaly_detection(d, a, z) ==
    Pass(d, a, z, 1, [data_stream |-> <<Seed(d)>>, anomalies |-> <<>>])

Call_noraise ==
    /\ pc = "call"
    /\ IF Len(data) = 0
       THEN /\ pc' = "returned"
            /\ UNCHANGED <<err, i, data_stream, anomalies>>
       ELSE /\ data_stream' = <<Seed(data)>>
            /\ anomalies' = <<>>
            /\ i' = 1
            /\ pc' = "loop"
            /\ UNCHANGED err
    /\ UNCHANGED <<inputs, plotState>>

\* Lines 36-37: data[0] raises IndexError on an empty signal.
Call ==
    /\ pc = "call"
    /\ IF Len(data) = 0
       THEN /\ pc' = "raised"
            /\ err' = "IndexError"
            /\ UNCHANGED <<i, data_stream, anomalies>>
       ELSE /\ data_stream' = <<Seed(data)>>
            /\ anomalies' = <<>>
            /\ i' = 1
            /\ pc' = "loop"
            /\ UNCHANGED err
    /\ UNCHANGED <<inputs, plotState>>

Loop ==
    /\ pc = "loop"
    /\ i < Len(data)
    /\ LET st == Iteration(data, alpha, z_value, i,
                           [data_stream |-> data_stream, anomalies |-> anomalies])
       IN  /\ data_stream' = st.data_stream
           /\ anomalies' = st.anomalies
    /\ i' = i + 1
    /\ UNCHANGED <<inputs, pc, err, plotState>>

Return ==
    /\ pc = "loop"
    /\ i >= Len(data)
    /\ pc' = "returned"
    /\ UNCHANGED <<inputs, err, i, data_stream, anomalies, plotState>>

\* ------------------------------------------------- realtime_visualization
\* Lines 83-87 and 112: fresh empty artists, animation created.
realtime_visualization ==
    /\ pc = "returned"
    /\ pc' = "animating"
    /\ frame' = 0 - 1
    /\ xdata' = <<>>
    /\ ydata' = <<>>
    /\ data_line' = <<<<>>, <<>>>>
    /\ moving_average_line' = <<<<>>, <<>>>>
    /\ anomaly_scatter' = <<>>
    /\ UNCHANGED <<inputs, err, i, data_stream, anomalies>>

\* frames=len(data) with the default repeat=True: 0, 1, ..., N-1, 0, 1, ...
NextFrame(f, n) == IF f + 1 >= n THEN 0 ELSE f + 1

AnomalyPoints(an, f) == SelectSeq(an, LAMBDA p : p[1] <= f)

update ==
    /\ pc = "animating"
    /\ Len(data) > 0
    /\ Len(xdata) < MaxUpdates
    /\ LET f == NextFrame(frame, Len(data))
           xs == Append(xdata, f)
           ys == Append(ydata, data[f + 1])
           moving_average_data == SubSeq(data_stream, 1, f + 1)
           anomaly_points == AnomalyPoints(anomalies, f)
       IN  /\ frame' = f
           /\ xdata' = xs
           /\ ydata' = ys
           /\ data_line' = IF Len(xs) = Len(ys) THEN <<xs, ys>> ELSE data_line
           /\ moving_average_line' =
                  IF Len(xs) = Len(moving_average_data)
                  THEN <<xs, moving_average_data>>
                  ELSE moving_average_line
           /\ anomaly_scatter' =
                  IF anomaly_points # <<>> THEN anomaly_points ELSE anomaly_scatter
    /\ UNCHANGED <<inputs, pc, err, i, data_stream, anomalies>>

\* ----------------------------------------------------------- specification
Init ==
    /\ data \in Signals
    /\ alpha \in Alphas
    /\ z_value \in Thresholds
    /\ pc = "call"
    /\ err = ""
    /\ i = 0
    /\ data_stream = <<>>
    /\ anomalies = <<>>
    /\ frame = 0 - 1
    /\ xdata = <<>>
    /\ ydata = <<>>
    /\ data_line = <<<<>>, <<>>>>
    /\ moving_average_line = <<<<>>, <<>>>>
    /\ anomaly_scatter = <<>>

Next == Call \/ Loop \/ Return \/ realtime_visualization \/ update

Spec == Init /\ [][Next]_vars

\* ------------------------------------------------------------------ claims
Finished == pc \in {"returned", "animating"}

IsPrefix(s, t) == Len(s) <= Len(t) /\ SubSeq(t, 1, Len(s)) = s

Indices(an) == {an[k][1] : k \in 1..Len(an)}

Exceeds(d, z) == d > z \/ 0 - d > z

\* C1: on return for a non-empty signal of length N the trend has length N,
\* trend[0] = signal[0], and trend[i] = alpha*signal[i] + (1-alpha)*trend[i-1]
\* for every i in 1..N-1 (both sides multiplied by One * One).
C1_TrendRecurrence ==
    Finished =>
        /\ Len(data_stream) = Len(data)
        /\ data_stream[1] = data[1]
        /\ \A k \in 2..Len(data) :
               data_stream[k] * One = alpha * data[k] + (One - alpha) * data_stream[k - 1]

C1_Witness ==
    /\ pc = "returned"
    /\ Len(data) >= 3
    /\ alpha \notin {0, One}
    /\ data_stream # data

ExpectedAnomalies ==
    SelectSeq([k \in 1..(Len(data) - 1) |-> <<k, data[k + 1]>>],
              LAMBDA p : Exceeds(data[p[1] + 1] - data_stream[p[1] + 1], z_value))

\* C2: on return the anomalies are exactly the pairs (i, signal[i]), in
\* increasing order of i, for the i in 1..N-1 with
\* abs(signal[i] - trend[i]) > threshold (strict, same-step trend).
C2_AnomaliesExact == Finished => anomalies = ExpectedAnomalies

C2_Witness ==
    /\ pc = "returned"
    /\ Len(anomalies) >= 1
    /\ Len(anomalies) < Len(data) - 1
    /\ \E k \in 1..(Len(data) - 1) :
           Abs(data[k + 1] - data_stream[k + 1]) = z_value

\* C3 (as claimed): a call with an empty signal ends in an InvalidInput
\* error with no trend value and no anomaly produced.
C3_InvalidInput ==
    (Len(data) = 0 /\ pc # "call") =>
        /\ pc = "raised"
        /\ err = "InvalidInput"
        /\ data_stream = <<>>
        /\ anomalies = <<>>

\* C3 (amended): a call with an empty signal ends in the IndexError raised
\* by reading data[0], with no trend value and no anomaly produced.
C3_IndexError ==
    (Len(data) = 0 /\ pc # "call") =>
        /\ pc = "raised"
        /\ err = "IndexError"
        /\ data_stream = <<>>
        /\ anomalies = <<>>

C3_Witness == Len(data) = 0 /\ pc = "raised"

\* C4: in every state of the pass every anomaly index i satisfies
\* 1 <= i < N (so index 0 is never an anomaly) and the anomaly list is
\* strictly increasing by index.
C4_IndexValidity ==
    /\ \A k \in 1..Len(anomalies) :
           1 <= anomalies[k][1] /\ anomalies[k][1] < Len(data)
    /\ \A k \in 1..(Len(anomalies) - 1) : anomalies[k][1] < anomalies[k + 1][1]

C4_Witness == pc = "loop" /\ i < Len(data) /\ Len(anomalies) >= 2

\* C5: for the same signal and alpha and any threshold t2 >= threshold, the
\* trend is the same and the anomalies for t2 are a subset of (hence no
\* more than) the anomalies for threshold.
C5_MonotoneSensitivity ==
    pc = "returned" =>
        \A t2 \in Thresholds :
            t2 >= z_value =>
                LET r == anomaly_detection(data, alpha, t2)
                IN  /\ r.data_stream = data_stream
                    /\ {r.anomalies[k] : k \in 1..Len(r.anomalies)}
                           \subseteq {anomalies[k] : k \in 1..Len(anomalies)}
                    /\ Len(r.anomalies) <= Len(anomalies)

C5_Witness ==
    /\ pc = "returned"
    /\ \E t2 \in Thresholds :
           /\ t2 > z_value
           /\ Len(anomaly_detection(data, alpha, t2).anomalies) >= 1
           /\ Len(anomaly_detection(data, alpha, t2).anomalies) < Len(anomalies)

\* C6: for alpha = 1 and threshold >= 0 the returned trend equals the
\* signal and no anomaly is returned.
C6_AlphaOne ==
    (Finished /\ alpha = One /\ z_value >= 0) =>
        data_stream = data /\ anomalies = <<>>

C6_Witness ==
    /\ pc = "returned"
    /\ alpha = One
    /\ z_value = 0
    /\ Len(data) >= 3
    /\ data[2] # data[1]

\* C7: for alpha = 0 every trend value is signal[0] and the flagged indices
\* are exactly the i >= 1 with abs(signal[i] - signal[0]) > threshold.
C7_AlphaZero ==
    (Finished /\ alpha = 0) =>
        /\ \A k \in 1..Len(data_stream) : data_stream[k] = data[1]
        /\ Indices(anomalies) =
               {k \in 1..(Len(data) - 1) : Exceeds(data[k + 1] - data[1], z_value)}

C7_Witness ==
    /\ pc = "returned"
    /\ alpha = 0
    /\ Len(data) >= 3
    /\ data[Len(data)] # data[1]
    /\ Len(anomalies) >= 1
    /\ Len(anomalies) < Len(data) - 1

\* C8: every step leaves signal, alpha and threshold unchanged and only
\* appends to the trend and to the anomalies.
C8_FrameAppendOnly ==
    [][/\ data' = data
       /\ alpha' = alpha
       /\ z_value' = z_value
       /\ IsPrefix(data_stream, data_stream')
       /\ IsPrefix(anomalies, anomalies')]_vars

C8_Witness ==
    /\ pc = "loop"
    /\ i >= 3
    /\ Len(data_stream) = i
    /\ Len(anomalies) >= 1

\* C9: after every update(k) the points on the scatter are only anomalies
\* with index <= k.
C9_ScatterUpToFrame ==
    (pc = "animating" /\ frame >= 0) =>
        \A k \in 1..Len(anomaly_scatter) :
            /\ anomaly_scatter[k][1] <= frame
            /\ anomaly_scatter[k] \in {anomalies[j] : j \in 1..Len(anomalies)}

====
